---- MODULE Spec2Model ----
(***************************************************************************)
(* Model of st2api/controllers/actionexecutions.py: the REST controller    *)
(* ActionExecutionsController (get_one, get_all, post, put) over the       *)
(* ActionExecution store.  Handlers run in worker threads that share the   *)
(* store; post and put each make two store calls, so each is two steps.    *)
(***************************************************************************)
EXTENDS Integers, Sequences, FiniteSets, TLC

VARIABLES store, now, pc, local, resp, posted

vars == <<store, now, pc, local, resp, posted>>

(* ------------------------------ bounds --------------------------------- *)

\* Records the store may hold in SpecUpdate and in Spec.
MaxRecords == 1
\* Records the store may hold in SpecFrame.
MaxFrameRecords == 2
\* Records the store may hold in SpecQuery.
MaxQueryRecords == 3
\* Records the store may hold in SpecParams.
MaxParamRecords == 1
\* The clock datetime.datetime.now() runs over 0..MaxTime.
MaxTime == 1

(* ----------------------------- constants ------------------------------- *)

\* get_all's default limit, limit='50'.
DefaultLimit == 50

NONE == "None"
ABSENT == "absent"

ACTIONEXEC_STATUS_INIT == "init"
ACTIONEXEC_STATUS_SCHEDULED == "scheduled"
ACTIONEXEC_STATUS_RUNNING == "running"
ACTIONEXEC_STATUS_SUCCEEDED == "succeeded"

\* Position of a status in the lifecycle INIT -> SCHEDULED -> RUNNING -> SUCCEEDED.
StatusRank(s) ==
    CASE s = ACTIONEXEC_STATUS_INIT -> 0
      [] s = ACTIONEXEC_STATUS_SCHEDULED -> 1
      [] s = ACTIONEXEC_STATUS_RUNNING -> 2
      [] OTHER -> 3

OK == "200"
CREATED == "201"
BAD_REQUEST == "400"
FORBIDDEN == "403"
NOT_FOUND == "404"
INTERNAL_SERVER_ERROR == "500"

Workers == {"w1", "w2"}

(* ------------------- action and runner type registries ----------------- *)

Keys == {"a", "b", "c", "d", "e"}

\* The registered actions, by the reference a request names them with.
ActionRegistry ==
    [ref \in {"act1", "act2", "act3"} |->
        CASE ref = "act1" -> [id |-> "id1", name |-> "act1", enabled |-> TRUE,
                              runner_type |-> "run1", required |-> {}]
          [] ref = "act2" -> [id |-> "id2", name |-> "act2", enabled |-> TRUE,
                              runner_type |-> "run2", required |-> {"c"}]
          [] OTHER        -> [id |-> "id3", name |-> "act3", enabled |-> FALSE,
                              runner_type |-> "run1", required |-> {}]]

\* get_action_by_dict(actionexecution.action): (action_db, action_dict), action_db
\* None when the reference names no registered action.
action_found(ref) == ref \in DOMAIN ActionRegistry
action_db_of(ref) == ActionRegistry[ref]
action_dict_of(ref) == [id |-> ActionRegistry[ref].id, name |-> ActionRegistry[ref].name]

NoAction == [id |-> NONE, name |-> NONE]

\* A runner parameter's metadata: 'default' may be missing, and may be None.
Meta(has, dflt) == [has_default |-> has, default |-> dflt]

\* get_runnertype_by_name(name).runner_parameters; "e" is no runner parameter.
runner_parameters(name) ==
    IF name = "run1"
    THEN [k \in {"a", "b", "c", "d"} |->
            CASE k = "a" -> Meta(TRUE, "1")
              [] k = "b" -> Meta(TRUE, "2")
              [] k = "c" -> Meta(FALSE, NONE)
              [] OTHER   -> Meta(TRUE, NONE)]
    ELSE [k \in {"a", "c"} |->
            CASE k = "a" -> Meta(TRUE, "1")
              [] OTHER   -> Meta(FALSE, NONE)]

\* Parameter maps: each key is absent or carries a value; "x" is ill-typed.
NoParams == [k \in Keys |-> ABSENT]

\* jsonschema.validate(parameters, get_parameter_schema(action_db)) passes.
validate(parameters, action_db) ==
    /\ \A k \in Keys : parameters[k] # "x"
    /\ \A k \in action_db.required : parameters[k] # ABSENT

(* ------------------------------ records -------------------------------- *)

NoContext == "{}"

NoRecord ==
    [id |-> 0, action |-> NoAction, parameters |-> NoParams, status |-> NONE,
     result |-> NONE, start_timestamp |-> 0, context |-> NoContext]

NoLocal == [actionexec_id |-> 0, actionexec_db |-> NoRecord, new_actionexec_db |-> NoRecord]

\* The arguments of a listing; the other calls' arguments are not kept.
NoArgs == [action_id |-> NONE, action_name |-> NONE, limit |-> 0]

\* The last call answered: the operation, a listing's arguments, the status code
\* and the records in the body.
NoResp == [op |-> "none", args |-> NoArgs, code |-> "none", body |-> <<>>]

\* Context header: absent, empty, a dict in single or double quotes, or garbage.
HdrAbsent == "absent"
HdrEmpty == ""
HdrSingle == "{'user': 'u1'}"
HdrDouble == "{\"user\": \"u1\"}"
HdrGarbage == "{user"

\* pecan.request.headers['st2-context'].replace("'", "\"")
replace_quotes(h) == IF h = HdrSingle THEN HdrDouble ELSE h

\* json.loads raises ValueError on anything but a JSON document.
json_loads_ok(s) == s = HdrDouble
json_loads(s) == "user=u1"

\* isotime.format(dt): the timestamp as text.
isotime_format(t) == ToString(t)

\* ActionExecutionAPI.from_model: the document's fields, its id as str(id) and its
\* start_timestamp formatted.
from_model(db) ==
    [db EXCEPT !.id = ToString(db.id), !.start_timestamp = isotime_format(db.start_timestamp)]

(* ------------------------------- store --------------------------------- *)

\* ActionExecution.add_or_update: a record without id is inserted under a fresh
\* id, a record with an id replaces the stored document as a whole.
add_or_update(st, db) ==
    IF db.id = 0
    THEN LET newid == Cardinality(DOMAIN st) + 1
         IN  (newid :> [db EXCEPT !.id = newid]) @@ st
    ELSE (db.id :> db) @@ st

\* The id add_or_update gave the record it inserted last.
saved_id(st) == Cardinality(DOMAIN st)

\* ActionExecution.get_by_id(id), id as the URL carries it: raises when no document
\* has the id.
get_by_id_ok(id) == \E n \in DOMAIN store : ToString(n) = id
get_by_id(id) == store[CHOOSE n \in DOMAIN store : ToString(n) = id]

\* update_actionexecution_status(new_status, actionexec_id=id): set the stored
\* document's status and save it.
update_actionexecution_status(st, new_status, id) ==
    [st EXCEPT ![id].status = new_status]

(* -------------------------------- post --------------------------------- *)

\* assign_defaults without the test `key not in actionexecution.parameters`: a
\* default replaces the caller's value.
assign_defaults_override(parameters, rp) ==
    [k \in Keys |->
        IF k \in DOMAIN rp /\ rp[k].has_default /\ rp[k].default # NONE
        THEN rp[k].default
        ELSE parameters[k]]

\* Lines 147-150: every runner parameter the request lacks gets its default,
\* when the metadata has one and it is not None.
assign_defaults(parameters, rp) ==
    [k \in Keys |->
        IF /\ k \in DOMAIN rp
           /\ parameters[k] = ABSENT
           /\ rp[k].has_default
           /\ rp[k].default # NONE
        THEN rp[k].default
        ELSE parameters[k]]

\* The request's st2-context header is present and non-empty.
has_context(req) == req.header # HdrAbsent /\ req.header # HdrEmpty

\* How far post gets with a request: the status code it aborts with, or CREATED.
post_outcome(req) ==
    IF has_context(req) /\ ~json_loads_ok(replace_quotes(req.header))
    THEN INTERNAL_SERVER_ERROR
    ELSE IF ~action_found(req.action) THEN NOT_FOUND
    ELSE IF ~action_db_of(req.action).enabled THEN FORBIDDEN
    ELSE IF ~req.has_parameters THEN INTERNAL_SERVER_ERROR
    ELSE IF ~validate(assign_defaults(req.parameters,
                          runner_parameters(action_db_of(req.action).runner_type)),
                      action_db_of(req.action))
         THEN BAD_REQUEST
    ELSE CREATED

\* post_model with the status set to SCHEDULED before the first save.
post_model_scheduled(req, ts) ==
    [id |-> 0,
     action |-> action_dict_of(req.action),
     parameters |-> assign_defaults(req.parameters,
                        runner_parameters(action_db_of(req.action).runner_type)),
     status |-> ACTIONEXEC_STATUS_SCHEDULED,
     result |-> NONE,
     start_timestamp |-> ts,
     context |-> IF has_context(req) THEN json_loads(replace_quotes(req.header))
                 ELSE NoContext]

\* The model post saves first: lines 112-168.
post_model(req, ts) ==
    [id |-> 0,
     action |-> action_dict_of(req.action),
     parameters |-> assign_defaults(req.parameters,
                        runner_parameters(action_db_of(req.action).runner_type)),
     status |-> ACTIONEXEC_STATUS_INIT,
     result |-> NONE,
     start_timestamp |-> ts,
     context |-> IF has_context(req) THEN json_loads(replace_quotes(req.header))
                 ELSE NoContext]

\* post up to its first save (lines 102-171): abort, or persist the record as INIT.
Post(p, req) ==
    /\ pc[p] = "idle"
    /\ IF post_outcome(req) # CREATED
       THEN /\ resp' = [op |-> "post", args |-> NoArgs, code |-> post_outcome(req), body |-> <<>>]
            /\ UNCHANGED <<store, pc, local>>
       ELSE /\ store' = add_or_update(store, post_model(req, now))
            /\ pc' = [pc EXCEPT ![p] = "post_saved"]
            /\ local' = [local EXCEPT ![p] = [NoLocal EXCEPT !.actionexec_id = saved_id(store')]]
            /\ UNCHANGED resp
    /\ UNCHANGED now

\* PostSchedule answering with the model of the first save, not the updated one.
PostScheduleStale(p) ==
    /\ pc[p] = "post_saved"
    /\ LET id == local[p].actionexec_id
       IN  /\ store' = update_actionexecution_status(store, ACTIONEXEC_STATUS_SCHEDULED, id)
           /\ resp' = [op |-> "post", args |-> NoArgs, code |-> CREATED,
                       body |-> <<from_model(store[id])>>]
    /\ pc' = [pc EXCEPT ![p] = "idle"]
    /\ local' = [local EXCEPT ![p] = NoLocal]
    /\ UNCHANGED now

\* post's second save and its response (lines 172-177).
PostSchedule(p) ==
    /\ pc[p] = "post_saved"
    /\ LET id == local[p].actionexec_id
       IN  /\ store' = update_actionexecution_status(store, ACTIONEXEC_STATUS_SCHEDULED, id)
           /\ resp' = [op |-> "post", args |-> NoArgs, code |-> CREATED, body |-> <<from_model(store'[id])>>]
    /\ pc' = [pc EXCEPT ![p] = "idle"]
    /\ local' = [local EXCEPT ![p] = NoLocal]
    /\ UNCHANGED now

(* -------------------------------- put ---------------------------------- *)

\* ActionExecutionAPI.to_model of put's body, stamped with the time of the call.
put_model(req, ts) ==
    [NoRecord EXCEPT !.status = req.status, !.result = req.result, !.start_timestamp = ts]

\* put_apply with the result assigned under the status test only.
put_apply_nested(db, new) ==
    IF db.status # new.status
    THEN [db EXCEPT !.status = new.status, !.result = new.result]
    ELSE db

\* put_apply copying the request's start_timestamp as well.
put_apply_stamped(db, new) ==
    [db EXCEPT !.status = IF db.status # new.status THEN new.status ELSE @,
               !.result = IF db.result # new.result THEN new.result ELSE @,
               !.start_timestamp = new.start_timestamp]

\* Lines 184-187: status and result are taken from the request where they differ.
put_apply(db, new) ==
    [db EXCEPT !.status = IF db.status # new.status THEN new.status ELSE @,
               !.result = IF db.result # new.result THEN new.result ELSE @]

\* put up to its read (lines 180-183): NotFound, or the record is in hand.
PutRead(p, id, req) ==
    /\ pc[p] = "idle"
    /\ IF ~get_by_id_ok(id)
       THEN /\ resp' = [op |-> "put", args |-> NoArgs, code |-> NOT_FOUND, body |-> <<>>]
            /\ UNCHANGED <<pc, local>>
       ELSE /\ pc' = [pc EXCEPT ![p] = "put_read"]
            /\ local' = [local EXCEPT ![p] =
                            [actionexec_id |-> get_by_id(id).id,
                             actionexec_db |-> get_by_id(id),
                             new_actionexec_db |-> put_model(req, now)]]
            /\ UNCHANGED resp
    /\ UNCHANGED <<store, now>>

\* PutWrite saving the request's model under the id, not the record read.
PutWriteReplace(p) ==
    /\ pc[p] = "put_read"
    /\ LET db == [local[p].new_actionexec_db EXCEPT !.id = local[p].actionexec_id]
       IN  /\ store' = add_or_update(store, db)
           /\ resp' = [op |-> "put", args |-> NoArgs, code |-> OK,
                       body |-> <<from_model(store'[db.id])>>]
    /\ pc' = [pc EXCEPT ![p] = "idle"]
    /\ local' = [local EXCEPT ![p] = NoLocal]
    /\ UNCHANGED now

\* PutWrite updating in the stored document only the fields the request changed.
PutWriteDelta(p) ==
    /\ pc[p] = "put_read"
    /\ LET db == local[p].actionexec_db
           new == local[p].new_actionexec_db
       IN  /\ store' = [store EXCEPT
                          ![db.id].status = IF db.status # new.status THEN new.status ELSE @,
                          ![db.id].result = IF db.result # new.result THEN new.result ELSE @]
           /\ resp' = [op |-> "put", args |-> NoArgs, code |-> OK,
                       body |-> <<from_model(store'[db.id])>>]
    /\ pc' = [pc EXCEPT ![p] = "idle"]
    /\ local' = [local EXCEPT ![p] = NoLocal]
    /\ UNCHANGED now

\* put's write and response (lines 184-190).
PutWrite(p) ==
    /\ pc[p] = "put_read"
    /\ LET db == put_apply(local[p].actionexec_db, local[p].new_actionexec_db)
       IN  /\ store' = add_or_update(store, db)
           /\ resp' = [op |-> "put", args |-> NoArgs, code |-> OK, body |-> <<from_model(store'[db.id])>>]
    /\ pc' = [pc EXCEPT ![p] = "idle"]
    /\ local' = [local EXCEPT ![p] = NoLocal]
    /\ UNCHANGED now

(* ------------------------------- reads --------------------------------- *)

\* get_one (lines 65-76).
GetOne(p, id) ==
    /\ pc[p] = "idle"
    /\ resp' = IF get_by_id_ok(id)
               THEN [op |-> "get_one", args |-> NoArgs, code |-> OK, body |-> <<from_model(get_by_id(id))>>]
               ELSE [op |-> "get_one", args |-> NoArgs, code |-> NOT_FOUND, body |-> <<>>]
    /\ UNCHANGED <<store, now, pc, local>>

\* The stored records the listing selects (lines 45-59): by action id when one is
\* given, else by action name when one is given, else all.
selected(action_id, action_name) ==
    IF action_id # NONE
    THEN {id \in DOMAIN store : store[id].action.id = action_id}
    ELSE IF action_name # NONE
         THEN {id \in DOMAIN store : store[id].action.name = action_name}
         ELSE DOMAIN store

Min(a, b) == IF a < b THEN a ELSE b

RECURSIVE latest_first(_)
\* order_by=['-start_timestamp']: the records of ids latest first, records with
\* equal timestamps in any order.
latest_first(ids) ==
    IF ids = {} THEN {<<>>}
    ELSE UNION { { <<store[x]>> \o q : q \in latest_first(ids \ {x}) } :
                   x \in {y \in ids : \A z \in ids :
                            store[y].start_timestamp >= store[z].start_timestamp} }

\* ActionExecution.query / get_all with order_by=['-start_timestamp'] and a limit.
query(ids, limit) ==
    { SubSeq(q, 1, Min(limit, Len(q))) : q \in latest_first(ids) }

\* _get_action_executions not passing the limit on.
get_action_executions_nolimit(action_id, action_name, limit) ==
    latest_first(selected(action_id, action_name))

\* _get_action_executions (lines 43-59).
get_action_executions(action_id, action_name, limit) ==
    query(selected(action_id, action_name), limit)

\* Where sorted() puts x into the sorted s: after every element whose key is not
\* greater (Python's sort is stable).
insert_sorted(s, x) ==
    LET k == Cardinality({i \in 1..Len(s) : s[i].start_timestamp <= x.start_timestamp})
    IN  SubSeq(s, 1, k) \o <<x>> \o SubSeq(s, k + 1, Len(s))

\* get_all without the sorted() call: the storage order is returned.
unsorted(s) == s

RECURSIVE sorted_by_start(_)
\* sorted(actionexec_dbs, key=lambda x: x.start_timestamp) (lines 94-95).
sorted_by_start(s) ==
    IF Len(s) = 0 THEN <<>>
    ELSE insert_sorted(sorted_by_start(SubSeq(s, 1, Len(s) - 1)), s[Len(s)])

\* get_all (lines 79-99).
GetAll(p, action_id, action_name, limit) ==
    /\ pc[p] = "idle"
    /\ \E dbs \in get_action_executions(action_id, action_name, limit) :
          resp' = [op |-> "get_all",
                   args |-> [action_id |-> action_id, action_name |-> action_name,
                             limit |-> limit],
                   code |-> OK,
                   body |-> LET s == sorted_by_start(dbs)
                            IN  [i \in 1..Len(s) |-> from_model(s[i])]]
    /\ UNCHANGED <<store, now, pc, local>>

\* datetime.datetime.now() moves on.
Tick ==
    /\ now' = now + 1
    /\ UNCHANGED <<store, pc, local, resp>>

(* --------------------------- specifications ---------------------------- *)

Req(action, has, parameters, header) ==
    [action |-> action, has_parameters |-> has, parameters |-> parameters, header |-> header]

\* The ids a client may name: every stored one and one that is not stored.
ProbeIds == {ToString(n) : n \in DOMAIN store \cup {Cardinality(DOMAIN store) + 1}}

Init ==
    /\ store = <<>>
    /\ now = 0
    /\ pc = [p \in Workers |-> "idle"]
    /\ local = [p \in Workers |-> NoLocal]
    /\ resp = NoResp
    /\ posted = <<>>

\* What a client that keeps each post's response sees of the record afterwards:
\* the response, and the fields whose stored value a put has changed since.
Observe ==
    posted' =
      [id \in DOMAIN posted \cup
              {ToString(local[p].actionexec_id) :
                 p \in {w \in Workers : pc[w] = "post_saved" /\ pc'[w] = "idle"}} |->
         IF id \in DOMAIN posted
         THEN LET n == CHOOSE m \in DOMAIN store : ToString(m) = id
              IN  [posted[id] EXCEPT !.changed =
                     @ \cup {f \in {"status", "result"} : store'[n][f] # store[n][f]}]
         ELSE [response |-> resp'.body[1], changed |-> {}]]

(* Spec: creation, update and lookup by two workers; the clock stands still. *)

PostRequests ==
    { Req("act1", TRUE, NoParams, HdrAbsent),
      Req("act1", TRUE, [NoParams EXCEPT !["a"] = "5"], HdrSingle),
      Req("act1", TRUE, [NoParams EXCEPT !["a"] = "x"], HdrAbsent),
      Req("act1", FALSE, NoParams, HdrEmpty),
      Req("act1", TRUE, NoParams, HdrGarbage),
      Req("act0", TRUE, NoParams, HdrAbsent),
      Req("act0", TRUE, NoParams, HdrGarbage),
      Req("act3", TRUE, NoParams, HdrDouble),
      Req("act3", TRUE, NoParams, HdrGarbage) }

LookupPutRequests ==
    { [status |-> ACTIONEXEC_STATUS_RUNNING, result |-> NONE],
      [status |-> ACTIONEXEC_STATUS_INIT, result |-> "ok"] }

Next ==
    /\ \/ \E p \in Workers : \E req \in PostRequests :
             /\ Cardinality(DOMAIN store) < MaxRecords
             /\ Post(p, req)
       \/ \E p \in Workers : PostSchedule(p)
       \/ \E p \in Workers : \E id \in ProbeIds : \E req \in LookupPutRequests : PutRead(p, id, req)
       \/ \E p \in Workers : PutWrite(p)
       \/ \E p \in Workers : \E id \in ProbeIds : GetOne(p, id)
    /\ Observe

Spec == Init /\ [][Next]_vars

(* SpecUpdate: updates racing each other and a creation, with the clock. *)

UpdatePostRequests ==
    { Req("act1", TRUE, NoParams, HdrAbsent) }

PutRequests ==
    { [status |-> ACTIONEXEC_STATUS_RUNNING, result |-> NONE],
      [status |-> ACTIONEXEC_STATUS_RUNNING, result |-> "ok"],
      [status |-> ACTIONEXEC_STATUS_INIT, result |-> "ok"] }

NextUpdate ==
    /\ \/ \E p \in Workers : \E req \in UpdatePostRequests :
             /\ Cardinality(DOMAIN store) < MaxRecords
             /\ Post(p, req)
       \/ \E p \in Workers : PostSchedule(p)
       \/ \E p \in Workers : \E id \in ProbeIds : \E req \in PutRequests : PutRead(p, id, req)
       \/ \E p \in Workers : PutWrite(p)
       \/ now < MaxTime /\ Tick
    /\ UNCHANGED posted

SpecUpdate == Init /\ [][NextUpdate]_vars

(* SpecFrame: updates by two workers on a store of several records, with the clock. *)

FramePutRequests ==
    { [status |-> ACTIONEXEC_STATUS_RUNNING, result |-> "ok"] }

NextFrame ==
    /\ \/ \E p \in Workers : \E req \in UpdatePostRequests :
             /\ Cardinality(DOMAIN store) < MaxFrameRecords
             /\ Post(p, req)
       \/ \E p \in Workers : PostSchedule(p)
       \/ \E p \in Workers : \E id \in ProbeIds : \E req \in FramePutRequests :
             PutRead(p, id, req)
       \/ \E p \in Workers : PutWrite(p)
       \/ now < MaxTime /\ Tick
    /\ UNCHANGED posted

SpecFrame == Init /\ [][NextFrame]_vars

(* SpecParams: one worker creating executions over every parameter map. *)

ParamRequests ==
    { Req(a, TRUE, ps, HdrAbsent) :
        a \in {"act1", "act2"},
        ps \in {f \in [Keys -> {ABSENT, "5", "x"}] : \A k \in Keys \ {"a"} : f[k] # "x"} }

NextParams ==
    /\ \/ \E req \in ParamRequests :
             /\ Cardinality(DOMAIN store) < MaxParamRecords
             /\ Post("w1", req)
       \/ PostSchedule("w1")
    /\ UNCHANGED posted

SpecParams == Init /\ [][NextParams]_vars

(* SpecQuery: one worker creating executions of two actions and listing them. *)

QueryPostRequests ==
    { Req("act1", TRUE, NoParams, HdrAbsent),
      Req("act2", TRUE, [NoParams EXCEPT !["c"] = "5"], HdrAbsent) }

Limits == {1, 2, DefaultLimit}

ListingFilters ==
    { [action_id |-> NONE, action_name |-> NONE],
      [action_id |-> "id1", action_name |-> NONE],
      [action_id |-> "id1", action_name |-> "act2"],
      [action_id |-> NONE, action_name |-> "act2"] }

NextQuery ==
    /\ \/ \E req \in QueryPostRequests :
             /\ Cardinality(DOMAIN store) < MaxQueryRecords
             /\ Post("w1", req)
       \/ PostSchedule("w1")
       \/ \E f \in ListingFilters : \E limit \in Limits :
             GetAll("w1", f.action_id, f.action_name, limit)
       \/ now < MaxTime /\ Tick
    /\ UNCHANGED posted

SpecQuery == Init /\ [][NextQuery]_vars

(* ------------------------- creation: C1, C2, C3 ------------------------ *)

\* The request's action resolves to an enabled action.
resolves_enabled(req) ==
    action_found(req.action) /\ ActionRegistry[req.action].enabled

\* What the claims say post validates and persists: the caller's parameters, plus
\* the default of every runner parameter the caller left out whose default is not null.
expected_parameters(req) ==
    LET rp == runner_parameters(ActionRegistry[req.action].runner_type)
    IN  [k \in Keys |->
            IF req.parameters[k] # ABSENT THEN req.parameters[k]
            ELSE IF k \in DOMAIN rp /\ rp[k].has_default /\ rp[k].default # NONE
                 THEN rp[k].default
                 ELSE ABSENT]

\* A valid creation request: its context header, when given, parses; it carries
\* parameters; and the merged parameters pass the action's schema.
valid_request(req) ==
    /\ ~has_context(req) \/ json_loads_ok(replace_quotes(req.header))
    /\ req.has_parameters
    /\ resolves_enabled(req)
    /\ validate(expected_parameters(req), ActionRegistry[req.action])

C2_RejectedPost ==
    [][\A p \in Workers : \A req \in PostRequests :
         Post(p, req) =>
            /\ pc'[p] = "idle" => store' = store
            /\ ~action_found(req.action) =>
                  resp'.code = NOT_FOUND /\ store' = store
            /\ (action_found(req.action) /\ ~ActionRegistry[req.action].enabled) =>
                  resp'.code = FORBIDDEN /\ store' = store
            /\ (resolves_enabled(req) /\ req.has_parameters
                  /\ ~validate(expected_parameters(req), ActionRegistry[req.action])) =>
                  resp'.code = BAD_REQUEST /\ store' = store
      ]_vars

\* C3: the parameters post validates and persists are the caller's plus the non-null
\* defaults of the runner parameters the caller left out; a supplied value is kept,
\* a parameter without default or with a null default is not added.
C3_DefaultsMerged ==
    [][\A req \in ParamRequests :
         Post("w1", req) =>
            IF validate(expected_parameters(req), ActionRegistry[req.action])
            THEN /\ pc'["w1"] = "post_saved"
                 /\ store'[local'["w1"].actionexec_id].parameters = expected_parameters(req)
                 /\ \A k \in Keys :
                       req.parameters[k] # ABSENT =>
                          store'[local'["w1"].actionexec_id].parameters[k] = req.parameters[k]
            ELSE resp'.code = BAD_REQUEST /\ store' = store
      ]_vars

\* C3: runner defaults {a: 1, b: 2}, request {a: 5}: persisted {a: 5, b: 2}.
C3_Witness ==
    \E id \in DOMAIN store :
       /\ store[id].action.name = "act1"
       /\ store[id].parameters = [NoParams EXCEPT !["a"] = "5", !["b"] = "2"]

(* ------------------------ update: C4, C8, C9, C10 ---------------------- *)

\* The fields put does not compare.
FrameFields == {"id", "action", "parameters", "context", "start_timestamp"}

C8_LastWriteWins ==
    [][\A p \in Workers :
         PutWrite(p) =>
            LET db == local[p].actionexec_db
                new == local[p].new_actionexec_db
            IN  /\ store'[db.id] = [db EXCEPT !.status = new.status, !.result = new.result]
                /\ \A f \in {"status", "result"} :
                      (new[f] = db[f] /\ store[db.id][f] # db[f]) =>
                         store'[db.id][f] # store[db.id][f]
      ]_vars

\* C8: a first put has written a result and been answered; a second put, which read
\* the record before that write and whose request leaves the result as read, is
\* about to write.
C8_Witness ==
    \E p \in Workers :
       /\ pc[p] = "put_read"
       /\ resp.op = "put" /\ resp.code = OK
       /\ resp.body[1] = from_model(store[local[p].actionexec_id])
       /\ resp.body[1].result = "ok"
       /\ local[p].actionexec_db.result = NONE
       /\ local[p].new_actionexec_db.result = NONE
       /\ local[p].new_actionexec_db.status # local[p].actionexec_db.status

\* C9 as claimed: post writes a record as INIT and then as SCHEDULED, and the
\* stored status of a record never returns to an earlier status of the lifecycle.
C9_Original ==
    [][/\ \A id \in DOMAIN store' \ DOMAIN store :
             store'[id].status = ACTIONEXEC_STATUS_INIT
       /\ \A p \in Workers :
             PostSchedule(p) =>
                store'[local[p].actionexec_id].status = ACTIONEXEC_STATUS_SCHEDULED
       /\ \A id \in DOMAIN store :
             StatusRank(store'[id].status) >= StatusRank(store[id].status)
      ]_vars

\* C9 as amended: post writes a record as INIT and then as SCHEDULED; every other
\* change of a stored status is a put writing the status of its request, whatever
\* the stored status is, so a put can return a record to an earlier status.
C9_StatusWriters ==
    [][/\ \A id \in DOMAIN store' \ DOMAIN store :
             store'[id].status = ACTIONEXEC_STATUS_INIT
       /\ \A p \in Workers :
             PostSchedule(p) =>
                store'[local[p].actionexec_id].status = ACTIONEXEC_STATUS_SCHEDULED
       /\ \A id \in DOMAIN store :
             store'[id].status # store[id].status =>
                \E p \in Workers :
                   /\ local[p].actionexec_id = id
                   /\ \/ /\ pc[p] = "post_saved" /\ pc'[p] = "idle"
                         /\ store'[id].status = ACTIONEXEC_STATUS_SCHEDULED
                      \/ /\ pc[p] = "put_read" /\ pc'[p] = "idle"
                         /\ store'[id].status = local[p].new_actionexec_db.status
      ]_vars

\* C9: every post has completed, and a put has since written INIT to a record.
C9_Witness ==
    /\ \A p \in Workers : pc[p] = "idle"
    /\ resp.op = "put" /\ resp.code = OK
    /\ resp.body[1].status = ACTIONEXEC_STATUS_INIT
    /\ get_by_id(resp.body[1].id).status = ACTIONEXEC_STATUS_INIT

\* C10: put changes only the status and result of its record: the record's id,
\* action, parameters, context and start_timestamp stay (the time stamped on the
\* request is not stored), every other record stays, and no record is added or
\* removed.
C10_PutFrame ==
    [][\A p \in Workers :
         /\ (resp' # resp /\ resp'.op = "put" /\ resp'.code = NOT_FOUND) => store' = store
         /\ (pc[p] = "idle" /\ pc'[p] = "put_read") => store' = store
         /\ PutWrite(p) =>
               /\ DOMAIN store' = DOMAIN store
               /\ \A id \in DOMAIN store :
                     IF id = local[p].actionexec_id
                     THEN \A f \in FrameFields : store'[id][f] = store[id][f]
                     ELSE store'[id] = store[id]
      ]_vars

\* C10: two records are stored, and a put holds one of them and a request stamped
\* later than the record was created, which changes the record's status.
C10_Witness ==
    \E p \in Workers :
       /\ pc[p] = "put_read"
       /\ Cardinality(DOMAIN store) = 2
       /\ local[p].new_actionexec_db.start_timestamp # local[p].actionexec_db.start_timestamp
       /\ local[p].new_actionexec_db.status # local[p].actionexec_db.status

(* --------------------------- listing: C5, C6 --------------------------- *)

\* The time a formatted start_timestamp stands for.
isotime_parse(s) == CHOOSE t \in 0..(MaxTime + 1) : isotime_format(t) = s

\* The body is in ascending order of start_timestamp.
Ascending(body) ==
    \A i, j \in 1..Len(body) :
       i < j => isotime_parse(body[i].start_timestamp) <= isotime_parse(body[j].start_timestamp)

\* The records the claims say a listing is drawn from: those of the action id when
\* one is given, whatever the name; else those of the action name; else all.
claimed_selection(action_id, action_name) ==
    IF action_id # NONE
    THEN {from_model(store[id]) :
             id \in {i \in DOMAIN store : store[i].action.id = action_id}}
    ELSE IF action_name # NONE
         THEN {from_model(store[id]) :
                 id \in {i \in DOMAIN store : store[i].action.name = action_name}}
         ELSE {from_model(store[id]) : id \in DOMAIN store}

Range(body) == {body[i] : i \in 1..Len(body)}

C6_ListingLimit ==
    [][(resp' # resp /\ resp'.op = "get_all") =>
         LET action_id == resp'.args.action_id
             action_name == resp'.args.action_name
             limit == resp'.args.limit
         IN  /\ Len(resp'.body) <= limit
             /\ Cardinality(claimed_selection(action_id, action_name)) > limit =>
                   /\ Len(resp'.body) = limit
                   /\ Cardinality(Range(resp'.body)) = limit
                   /\ Range(resp'.body) \subseteq claimed_selection(action_id, action_name)
                   /\ \A r \in Range(resp'.body) :
                         \A o \in claimed_selection(action_id, action_name) \ Range(resp'.body) :
                            isotime_parse(r.start_timestamp) >= isotime_parse(o.start_timestamp)
                   /\ Ascending(resp'.body)
      ]_vars

\* C6: three records are stored and the last listing, unfiltered with limit 2,
\* returned the two latest, the record it left out being earlier than both.
C6_Witness ==
    /\ resp.op = "get_all"
    /\ resp.args.action_id = NONE /\ resp.args.action_name = NONE
    /\ resp.args.limit = 2
    /\ Len(resp.body) = 2
    /\ Cardinality(DOMAIN store) = 3
    /\ Range(resp.body) \subseteq {from_model(store[id]) : id \in DOMAIN store}
    /\ \E id \in DOMAIN store :
          /\ from_model(store[id]) \notin Range(resp.body)
          /\ store[id].start_timestamp < isotime_parse(resp.body[1].start_timestamp)

(* ----------------------------- round trip: C7 -------------------------- *)

RecordFields == FrameFields \cup {"status", "result"}

\* C7: get_one on the id a post returned yields the post's response, field for
\* field, except in the fields a put has changed since.
C7_RoundTrip ==
    [][\A p \in Workers : \A id \in DOMAIN posted :
         GetOne(p, id) =>
            /\ resp'.code = OK /\ Len(resp'.body) = 1
            /\ \A f \in RecordFields \ posted[id].changed :
                  resp'.body[1][f] = posted[id].response[f]
      ]_vars

\* C7: get_one has returned a posted record whose status a put changed since, its
\* other fields as the post returned them.
C7_Witness ==
    /\ resp.op = "get_one" /\ resp.code = OK
    /\ resp.body[1].id \in DOMAIN posted
    /\ posted[resp.body[1].id].changed = {"status"}
    /\ resp.body[1].status # posted[resp.body[1].id].response.status
    /\ resp.body[1].parameters["a"] = "5"
    /\ resp.body[1].context # NoContext
    /\ resp.body[1] = from_model(get_by_id(resp.body[1].id))

====
